---- MODULE Spec2Model ----
(***************************************************************************)
(* A model of src/src/domain.rs: the EvaluationDomain over a prime field   *)
(* with a 2-adic subgroup, its radix-2 transforms (serial_fft,             *)
(* parallel_fft, the accelerator dispatch best_fft / gpu_fft) and the      *)
(* elementwise operations that run in chunks on the worker.                *)
(*                                                                         *)
(* The scalar field E::Fr comes from the ff crate.  The model instantiates *)
(* it with the prime field of 97 elements: 97 - 1 = 2^5 * 3, so the        *)
(* 2-adicity is 5, 5 generates the multiplicative group and 5^3 = 28 is a  *)
(* primitive 2^5-th root of unity.  A vector (Vec<G>, &mut [T]) is a       *)
(* sequence; index i of the code is index i + 1 of the sequence.  A group  *)
(* element of either variant is a residue: Scalar(x) is x, and a Point is  *)
(* the multiple x of the generator of a group of prime order 97, so that   *)
(* group_mul_assign is multiplication of residues for both variants.       *)
(***************************************************************************)
EXTENDS Integers, Sequences, FiniteSets, TLC

\* ------------------------------------------------------------------ E::Fr

\* The characteristic of the scalar field E::Fr.
MODULUS == 97

\* E::Fr::S, the 2-adicity of the field: 2^S divides MODULUS - 1.
S == 5

\* E::Fr::multiplicative_generator().
multiplicative_generator == 5

\* E::Fr::root_of_unity(): multiplicative_generator^((MODULUS - 1) / 2^S).
root_of_unity == 28

Fr == 0 .. (MODULUS - 1)

one == 1

zero == 0

add(x, y) == (x + y) % MODULUS

sub(x, y) == (x + MODULUS - y) % MODULUS

mul(x, y) == (x * y) % MODULUS

square(x) == mul(x, x)

RECURSIVE pow(_, _)
\* Field::pow: square and multiply over the bits of the exponent.
pow(x, e) ==
    IF e = 0 THEN one
    ELSE LET h == pow(x, e \div 2)
         IN  IF e % 2 = 1 THEN mul(square(h), x) ELSE square(h)

\* Field::inverse: an Option, here the empty set for None and {y} for Some(y).
inverse(x) == IF x = zero THEN {} ELSE {pow(x, MODULUS - 2)}

IsSome(o) == o # {}

\* Option::unwrap on a Some.
unwrap(o) == CHOOSE y \in o : TRUE

RECURSIVE format(_)
\* format!("{}", m): the decimal digits of m, most significant first.
format(m) ==
    IF m < 10 THEN <<m>> ELSE Append(format(m \div 10), m % 10)

RECURSIVE from_str_digits(_, _, _)
from_str_digits(digits, i, acc) ==
    IF i > Len(digits) THEN acc
    ELSE from_str_digits(digits, i + 1, add(mul(acc, 10), digits[i] % MODULUS))

\* PrimeField::from_str: None for the empty string and for a leading zero
\* before other digits, otherwise the digits accumulated in the field.
from_str(digits) ==
    IF Len(digits) = 0 THEN {}
    ELSE IF Len(digits) > 1 /\ digits[1] = 0 THEN {}
    ELSE {from_str_digits(digits, 1, zero)}

RECURSIVE TwoPow(_)
\* 1 << k.
TwoPow(k) == IF k = 0 THEN 1 ELSE 2 * TwoPow(k - 1)

\* ------------------------------------------------------------ Group<E>

group_zero == zero

group_mul_assign(v, by) == mul(v, by)

group_add_assign(v, other) == add(v, other)

group_sub_assign(v, other) == sub(v, other)

\* a[i] of the code.
At(a, i) == a[i + 1]

\* a[i] = x of the code.
Put(a, i, x) == [a EXCEPT ![i + 1] = x]

\* TRUE of every buffer.  TLC evaluates the arguments of an operator only when
\* they are used; a loop tests this at its head so that the buffer of every
\* iteration is evaluated before the next one starts.
Evaluated(a) == Len(a) >= 0

\* Vec::resize(m, value).
resize(coeffs, m, value) ==
    [i \in 1 .. m |-> IF i <= Len(coeffs) THEN coeffs[i] ELSE value]

\* ---------------------------------------------------------- from_coeffs

RECURSIVE DomainSizeLe(_, _, _)
\* DomainSize with the loop running while m <= coeffs.len().
DomainSizeLe(m, exp, len) ==
    IF m <= len
    THEN IF exp + 1 >= S
         THEN [ok |-> FALSE, m |-> 2 * m, exp |-> exp + 1]
         ELSE DomainSizeLe(2 * m, exp + 1, len)
    ELSE [ok |-> TRUE, m |-> m, exp |-> exp]

RECURSIVE DomainSize(_, _, _)
\* The loop of from_coeffs that computes m and exp, and its early return.
DomainSize(m, exp, len) ==
    IF m < len
    THEN IF exp + 1 >= S
         THEN [ok |-> FALSE, m |-> 2 * m, exp |-> exp + 1]
         ELSE DomainSize(2 * m, exp + 1, len)
    ELSE [ok |-> TRUE, m |-> m, exp |-> exp]

RECURSIVE SquareTimes(_, _)
SquareTimes(x, k) == IF k = 0 THEN x ELSE SquareTimes(square(x), k - 1)

\* DomainOmega with one squaring less.
DomainOmegaShort(exp) == SquareTimes(root_of_unity, S - exp - 1)

\* omega of from_coeffs: root_of_unity squared once for every value in exp..S.
DomainOmega(exp) == SquareTimes(root_of_unity, S - exp)

NoDomain == [exp |-> -1]

from_coeffs(coeffs) ==
    LET size == DomainSize(1, 0, Len(coeffs))
        omega == DomainOmega(size.exp)
    IN  IF ~size.ok
        THEN [ok |-> FALSE, err |-> "PolynomialDegreeTooLarge", dom |-> NoDomain]
        ELSE [ok |-> TRUE, err |-> "none",
              dom |-> [coeffs |-> resize(coeffs, size.m, group_zero),
                       exp |-> size.exp,
                       omega |-> omega,
                       omegainv |-> unwrap(inverse(omega)),
                       geninv |-> unwrap(inverse(multiplicative_generator)),
                       minv |-> unwrap(inverse(unwrap(from_str(format(size.m)))))]]

\* ----------------------------------------------------------- serial_fft

RECURSIVE bitreverse_loop(_, _, _)
bitreverse_loop(n, l, r) ==
    IF l = 0 THEN r ELSE bitreverse_loop(n \div 2, l - 1, 2 * r + (n % 2))

bitreverse(n, l) == bitreverse_loop(n, l, 0)

swap(a, i, j) == [a EXCEPT ![i + 1] = a[j + 1], ![j + 1] = a[i + 1]]

RECURSIVE SwapLoop(_, _, _, _)
\* for k in 0..n: swap a[k] and a[bitreverse(k)] when k < bitreverse(k).
SwapLoop(a, k, n, log_n) ==
    IF k >= n \/ ~Evaluated(a) THEN a
    ELSE LET rk == bitreverse(k, log_n)
         IN  SwapLoop(IF k < rk THEN swap(a, rk, k) ELSE a, k + 1, n, log_n)

RECURSIVE ButterflyLoop(_, _, _, _, _, _)
\* for j in 0..m: one butterfly on a[k + j] and a[k + j + m].
ButterflyLoop(a, k, j, m, w, w_m) ==
    IF j >= m \/ ~Evaluated(a) THEN a
    ELSE LET t == group_mul_assign(At(a, k + j + m), w)
             tmp == group_sub_assign(At(a, k + j), t)
             a1 == Put(a, k + j + m, tmp)
             a2 == Put(a1, k + j, group_add_assign(At(a1, k + j), t))
         IN  ButterflyLoop(a2, k, j + 1, m, mul(w, w_m), w_m)

RECURSIVE BlockLoop(_, _, _, _, _)
\* while k < n: the butterflies of the block at k, then k += 2 * m.
BlockLoop(a, k, n, m, w_m) ==
    IF k >= n \/ ~Evaluated(a) THEN a
    ELSE BlockLoop(ButterflyLoop(a, k, 0, m, one, w_m), k + 2 * m, n, m, w_m)

RECURSIVE StageLoop(_, _, _, _, _, _)
\* for _ in 0..log_n: one stage with w_m = omega^(n / (2 * m)), then m *= 2.
StageLoop(a, stage, log_n, m, n, omega) ==
    IF stage >= log_n \/ ~Evaluated(a) THEN a
    ELSE StageLoop(BlockLoop(a, 0, n, m, pow(omega, n \div (2 * m))),
                   stage + 1, log_n, 2 * m, n, omega)

serial_fft(a, omega, log_n) ==
    LET n == Len(a)
    IN  StageLoop(SwapLoop(a, 0, n, log_n), 0, log_n, 1, n, omega)

\* --------------------------------------------------------------- Worker

RECURSIVE FloorLog2(_)
FloorLog2(n) == IF n <= 1 THEN 0 ELSE 1 + FloorLog2(n \div 2)

\* Worker::log_num_cpus of a worker with the given number of cpus.
log_num_cpus(cpus) == FloorLog2(cpus)

\* The chunk size Worker::scope(elements, ..) hands to its closure.
ScopeChunk(cpus, elements) ==
    IF elements < cpus THEN 1 ELSE elements \div cpus

Min(x, y) == IF x <= y THEN x ELSE y

\* The number of slices of chunks_mut(chunk) on a buffer of len elements.
NumChunks(len, chunk) == (len + chunk - 1) \div chunk

\* One past the last index of slice c of chunks_mut(chunk).
ChunkEnd(len, chunk, c) == Min((c + 1) * chunk, len)

\* --------------------------------------------------------- parallel_fft

RECURSIVE ShuffleInner(_, _, _, _, _, _, _, _)
\* for s in 0..num_cpus: acc += a[(i + (s << log_new_n)) % (1 << log_n)] * elt.
ShuffleInner(a, acc, elt, s, i, omega_step, log_n, log_cpus) ==
    IF s >= TwoPow(log_cpus) THEN [acc |-> acc, elt |-> elt]
    ELSE LET idx == (i + s * TwoPow(log_n - log_cpus)) % TwoPow(log_n)
             t == group_mul_assign(At(a, idx), elt)
         IN  ShuffleInner(a, group_add_assign(acc, t), mul(elt, omega_step),
                          s + 1, i, omega_step, log_n, log_cpus)

RECURSIVE ShuffleOuter(_, _, _, _, _, _, _, _)
\* for (i, tmp) in tmp.iter_mut().enumerate(): the inner loop, then elt *= omega_j.
ShuffleOuter(a, tmp, elt, i, omega_j, omega_step, log_n, log_cpus) ==
    IF i >= Len(tmp) \/ ~Evaluated(tmp) THEN tmp
    ELSE LET r == ShuffleInner(a, At(tmp, i), elt, 0, i, omega_step, log_n, log_cpus)
         IN  ShuffleOuter(a, Put(tmp, i, r.acc), mul(r.elt, omega_j), i + 1,
                          omega_j, omega_step, log_n, log_cpus)

\* SubFftTask with the twiddles of stripe j + 1.
SubFftTaskNext(a, omega, log_n, log_cpus, j) ==
    LET log_new_n == log_n - log_cpus
        new_omega == pow(omega, TwoPow(log_cpus))
        omega_j == pow(omega, j + 1)
        omega_step == pow(omega, (j + 1) * TwoPow(log_new_n))
        tmp0 == [i \in 1 .. TwoPow(log_new_n) |-> group_zero]
        shuffled == ShuffleOuter(a, tmp0, one, 0, omega_j, omega_step, log_n, log_cpus)
    IN  serial_fft(shuffled, new_omega, log_new_n)

\* The task spawned for tmp[j] in the first scope: shuffle, then the sub-FFT.
SubFftTask(a, omega, log_n, log_cpus, j) ==
    LET log_new_n == log_n - log_cpus
        new_omega == pow(omega, TwoPow(log_cpus))
        omega_j == pow(omega, j)
        omega_step == pow(omega, j * TwoPow(log_new_n))
        tmp0 == [i \in 1 .. TwoPow(log_new_n) |-> group_zero]
        shuffled == ShuffleOuter(a, tmp0, one, 0, omega_j, omega_step, log_n, log_cpus)
    IN  serial_fft(shuffled, new_omega, log_new_n)

RECURSIVE CopyLoop(_, _, _, _, _)
\* for a in a: *a = tmp[idx & mask][idx >> log_cpus]; idx += 1.
CopyLoop(a, tmp, idx, end, log_cpus) ==
    IF idx >= end \/ ~Evaluated(a) THEN a
    ELSE CopyLoop(Put(a, idx, At(At(tmp, idx % TwoPow(log_cpus)), idx \div TwoPow(log_cpus))),
                  tmp, idx + 1, end, log_cpus)

\* The task spawned for slice c of a.chunks_mut(chunk) in the second scope.
CopyTask(a, tmp, c, chunk, log_cpus) ==
    CopyLoop(a, tmp, c * chunk, ChunkEnd(Len(a), chunk, c), log_cpus)

RECURSIVE CopyChunks(_, _, _, _, _)
CopyChunks(a, tmp, c, chunk, log_cpus) ==
    IF c >= NumChunks(Len(a), chunk) \/ ~Evaluated(a) THEN a
    ELSE CopyChunks(CopyTask(a, tmp, c, chunk, log_cpus), tmp, c + 1, chunk, log_cpus)

\* parallel_fft with the tasks of each scope run in index order; chunk is the
\* chunk size of the second scope.
parallel_fft(a, omega, log_n, log_cpus, chunk) ==
    LET tmp == [j \in 1 .. TwoPow(log_cpus) |-> SubFftTask(a, omega, log_n, log_cpus, j - 1)]
    IN  CopyChunks(a, tmp, 0, chunk, log_cpus)

\* ---------------------------------------------------- gpu_fft, best_fft

\* What a call through the accelerator handle can come to: the handle holds no
\* usable kernel, or FFTKernel::radix_fft runs and returns Ok or Err.
KernelOutcomes == {"NoKernel", "Ok", "Err"}

\* FFTKernel::radix_fft on a buffer of field elements.
radix_fft(a, omega, log_n, outcome) ==
    IF outcome = "Ok"
    THEN [ret |-> "Ok", a |-> serial_fft(a, omega, log_n)]
    ELSE [ret |-> "Err", a |-> a]

\* What the kernel can leave in a buffer of Point elements that was transmuted
\* to a buffer of field elements: the element sizes differ, so the contents
\* are not determined by the code.
Transmuted(a) ==
    {a} \cup {[i \in 1 .. Len(a) |-> x] : x \in {zero, one}}

\* gpu_fft: transmute the buffer, whatever the variant of its elements, and
\* call radix_fft on it.
gpu_fft(variant, a, omega, log_n, outcome, junk) ==
    LET r == radix_fft(a, omega, log_n, outcome)
    IN  [ret |-> r.ret,
         a |-> IF variant = "Scalar" \/ r.ret = "Err" THEN r.a ELSE junk,
         radix_calls |-> 1,
         passed |-> variant]

\* LockedFFTKernel::with: runs the closure once on the kernel the handle holds.
with(variant, a, omega, log_n, outcome, junk) ==
    IF outcome = "NoKernel"
    THEN [ret |-> "Err", a |-> a, radix_calls |-> 0, passed |-> "none"]
    ELSE gpu_fft(variant, a, omega, log_n, outcome, junk)

\* best_fft returning what the accelerator returned whenever a handle is given.
best_fftNoFallback(env, a, omega, log_n) ==
    LET g == with(env.variant, a, omega, log_n, env.outcome, env.junk)
        log_cpus == log_num_cpus(env.cpus)
    IN  IF env.kern = "Some"
        THEN [ret |-> g.ret, a |-> g.a, radix_calls |-> g.radix_calls,
              passed |-> g.passed, cpu |-> "none"]
        ELSE [ret |-> "Ok",
              a |-> IF log_n <= log_cpus
                    THEN serial_fft(a, omega, log_n)
                    ELSE parallel_fft(a, omega, log_n, log_cpus,
                                      ScopeChunk(env.cpus, Len(a))),
              radix_calls |-> 0,
              passed |-> "none",
              cpu |-> IF log_n <= log_cpus THEN "serial" ELSE "parallel"]

\* best_fft.  env holds the caller's arguments and the outcome of the call to
\* the accelerator: kern (the Option), variant, cpus, outcome, junk.
best_fft(env, a, omega, log_n) ==
    LET g == with(env.variant, a, omega, log_n, env.outcome, env.junk)
        log_cpus == log_num_cpus(env.cpus)
    IN  IF env.kern = "Some" /\ g.ret = "Ok"
        THEN [ret |-> "Ok", a |-> g.a, radix_calls |-> g.radix_calls,
              passed |-> g.passed, cpu |-> "none"]
        ELSE LET a0 == IF env.kern = "Some" THEN g.a ELSE a
             IN  [ret |-> "Ok",
                  a |-> IF log_n <= log_cpus
                        THEN serial_fft(a0, omega, log_n)
                        ELSE parallel_fft(a0, omega, log_n, log_cpus,
                                          ScopeChunk(env.cpus, Len(a0))),
                  radix_calls |-> IF env.kern = "Some" THEN g.radix_calls ELSE 0,
                  passed |-> IF env.kern = "Some" THEN g.passed ELSE "none",
                  cpu |-> IF log_n <= log_cpus THEN "serial" ELSE "parallel"]

\* ----------------------------------------- EvaluationDomain, elementwise

RECURSIVE ScaleLoop(_, _, _, _)
\* for v in v: v.group_mul_assign(&by), on the slice from idx to end.
ScaleLoop(a, idx, end, by) ==
    IF idx >= end \/ ~Evaluated(a) THEN a
    ELSE ScaleLoop(Put(a, idx, group_mul_assign(At(a, idx), by)), idx + 1, end, by)

\* The task spawned for slice c of coeffs.chunks_mut(chunk) by ifft and
\* divide_by_z_on_coset.
ScaleTask(a, c, chunk, by) ==
    ScaleLoop(a, c * chunk, ChunkEnd(Len(a), chunk, c), by)

RECURSIVE ScaleChunks(_, _, _, _)
ScaleChunks(a, c, chunk, by) ==
    IF c >= NumChunks(Len(a), chunk) \/ ~Evaluated(a) THEN a
    ELSE ScaleChunks(ScaleTask(a, c, chunk, by), c + 1, chunk, by)

RECURSIVE DistributeLoop(_, _, _, _, _)
\* for v in v.iter_mut(): v.group_mul_assign(&u); u.mul_assign(&g).
DistributeLoop(a, idx, end, u, g) ==
    IF idx >= end \/ ~Evaluated(a) THEN a
    ELSE DistributeLoop(Put(a, idx, group_mul_assign(At(a, idx), u)),
                        idx + 1, end, mul(u, g), g)

\* The task of distribute_powers seeding u with g to the index of its slice,
\* not to the index of the first element of its slice.
DistributeTaskSliceSeed(a, i, chunk, g) ==
    DistributeLoop(a, i * chunk, ChunkEnd(Len(a), chunk, i), pow(g, i), g)

\* The task spawned for slice i of coeffs.chunks_mut(chunk) by distribute_powers.
DistributeTask(a, i, chunk, g) ==
    DistributeLoop(a, i * chunk, ChunkEnd(Len(a), chunk, i), pow(g, i * chunk), g)

RECURSIVE DistributeChunks(_, _, _, _)
DistributeChunks(a, i, chunk, g) ==
    IF i >= NumChunks(Len(a), chunk) \/ ~Evaluated(a) THEN a
    ELSE DistributeChunks(DistributeTask(a, i, chunk, g), i + 1, chunk, g)

RECURSIVE MulLoop(_, _, _, _)
\* for (a, b) in a.iter_mut().zip(b.iter()): a.group_mul_assign(&b.0).
MulLoop(a, b, idx, end) ==
    IF idx >= end \/ ~Evaluated(a) THEN a
    ELSE MulLoop(Put(a, idx, group_mul_assign(At(a, idx), At(b, idx))), b, idx + 1, end)

RECURSIVE MulChunks(_, _, _, _)
MulChunks(a, b, c, chunk) ==
    IF c >= NumChunks(Len(a), chunk) \/ ~Evaluated(a) THEN a
    ELSE MulChunks(MulLoop(a, b, c * chunk, ChunkEnd(Len(a), chunk, c)), b, c + 1, chunk)

RECURSIVE SubLoop(_, _, _, _)
\* for (a, b) in a.iter_mut().zip(b.iter()): a.group_sub_assign(&b).
SubLoop(a, b, idx, end) ==
    IF idx >= end \/ ~Evaluated(a) THEN a
    ELSE SubLoop(Put(a, idx, group_sub_assign(At(a, idx), At(b, idx))), b, idx + 1, end)

RECURSIVE SubChunks(_, _, _, _)
SubChunks(a, b, c, chunk) ==
    IF c >= NumChunks(Len(a), chunk) \/ ~Evaluated(a) THEN a
    ELSE SubChunks(SubLoop(a, b, c * chunk, ChunkEnd(Len(a), chunk, c)), b, c + 1, chunk)

\* ------------------------------------------- EvaluationDomain, methods
\* Each method is an operator from the domain (and the caller's arguments) to
\* a record of what the call returns and the domain it leaves.

NoCall == [ret |-> "none", radix_calls |-> 0, passed |-> "none", cpu |-> "none"]

CallOf(r) ==
    [ret |-> r.ret, radix_calls |-> r.radix_calls, passed |-> r.passed, cpu |-> r.cpu]

fft(d, env) ==
    LET r == best_fft(env, d.coeffs, d.omega, d.exp)
    IN  [dom |-> [d EXCEPT !.coeffs = r.a], call |-> CallOf(r)]

\* ifft without the scaling by minv.
ifftUnscaled(d, env) ==
    LET r == best_fft(env, d.coeffs, d.omegainv, d.exp)
    IN  [dom |-> [d EXCEPT !.coeffs = r.a], call |-> CallOf(r)]

ifft(d, env) ==
    LET r == best_fft(env, d.coeffs, d.omegainv, d.exp)
    IN  IF r.ret # "Ok"
        THEN [dom |-> [d EXCEPT !.coeffs = r.a], call |-> CallOf(r)]
        ELSE [dom |-> [d EXCEPT !.coeffs =
                          ScaleChunks(r.a, 0, ScopeChunk(env.cpus, Len(r.a)), d.minv)],
              call |-> CallOf(r)]

distribute_powers(d, cpus, g) ==
    [d EXCEPT !.coeffs =
        DistributeChunks(d.coeffs, 0, ScopeChunk(cpus, Len(d.coeffs)), g)]

coset_fft(d, env) ==
    fft(distribute_powers(d, env.cpus, multiplicative_generator), env)

\* icoset_fft distributing the powers of the generator, not of its inverse.
icoset_fftGen(d, env) ==
    LET r == ifft(d, env)
    IN  IF r.call.ret # "Ok" THEN r
        ELSE [dom |-> distribute_powers(r.dom, env.cpus, multiplicative_generator),
              call |-> r.call]

icoset_fft(d, env) ==
    LET r == ifft(d, env)
    IN  IF r.call.ret # "Ok" THEN r
        ELSE [dom |-> distribute_powers(r.dom, env.cpus, d.geninv), call |-> r.call]

\* z with the one added, not subtracted.
zPlus(d, tau) == add(pow(tau, Len(d.coeffs)), one)

z(d, tau) == sub(pow(tau, Len(d.coeffs)), one)

\* divide_by_z_on_coset: the unwrap of the inverse panics on None, before
\* anything is written.
divide_by_z_on_coset(d, cpus) ==
    LET i == inverse(z(d, multiplicative_generator))
    IN  IF ~IsSome(i) THEN [panic |-> TRUE, dom |-> d]
        ELSE [panic |-> FALSE,
              dom |-> [d EXCEPT !.coeffs =
                          ScaleChunks(d.coeffs, 0, ScopeChunk(cpus, Len(d.coeffs)),
                                      unwrap(i))]]

\* mul_assign with every slice multiplied by the first slice of other.
mul_assignFirstSlice(d, cpus, other) ==
    IF Len(d.coeffs) # Len(other.coeffs) THEN [panic |-> TRUE, dom |-> d]
    ELSE [panic |-> FALSE,
          dom |-> [d EXCEPT !.coeffs =
                      [i \in 1 .. Len(d.coeffs) |->
                          group_mul_assign(d.coeffs[i],
                              other.coeffs[((i - 1) % ScopeChunk(cpus, Len(d.coeffs))) + 1])]]]

\* mul_assign and sub_assign: assert_eq! on the lengths panics.
mul_assign(d, cpus, other) ==
    IF Len(d.coeffs) # Len(other.coeffs) THEN [panic |-> TRUE, dom |-> d]
    ELSE [panic |-> FALSE,
          dom |-> [d EXCEPT !.coeffs =
                      MulChunks(d.coeffs, other.coeffs, 0, ScopeChunk(cpus, Len(d.coeffs)))]]

sub_assign(d, cpus, other) ==
    IF Len(d.coeffs) # Len(other.coeffs) THEN [panic |-> TRUE, dom |-> d]
    ELSE [panic |-> FALSE,
          dom |-> [d EXCEPT !.coeffs =
                      SubChunks(d.coeffs, other.coeffs, 0, ScopeChunk(cpus, Len(d.coeffs)))]]

\* ------------------------------------------------------------- the state

VARIABLES
    cpus,      \* the number of cpus of the Worker the caller passes
    kern,      \* the Option<LockedFFTKernel> the caller passes: "None" or "Some"
    variant,   \* the variant of G: "Scalar" or "Point"
    input,     \* the vector given to from_coeffs
    result,    \* what from_coeffs returned: "none" before the call
    dom,       \* the EvaluationDomain, NoDomain while there is none
    hist,      \* the calls made on dom since from_coeffs, oldest first
    panicked,  \* whether a call on dom panicked
    par,       \* a call of parallel_fft, task by task
    test,      \* a run of the body of the test polynomial_arith
    dist       \* a call of distribute_powers, task by task

vars == <<cpus, kern, variant, input, result, dom, hist, panicked, par, test, dist>>

\* The longest vector of arbitrary coefficients.
MaxLen == 2

\* The longest ramp given to from_coeffs of a domain that is then operated on.
MaxRamp == 9

\* The largest log_n of a buffer given to parallel_fft task by task.
MaxLogN == 3

\* The largest log_cpus given to parallel_fft task by task.
MaxLogCpus == 2

\* The largest power of omega that z is evaluated at.
MaxK == 33

\* The most calls made on one domain.
MaxOps == 2

\* The most cpus of a worker.
MaxCpus == 4

\* The largest chunk, beside its own, that a worker hands to distribute_powers
\* run task by task.
MaxChunk == 6

\* The most tasks of distribute_powers run task by task.
MaxTasks == 8

\* The coefficients a vector of arbitrary coefficients is made of.
Coeffs == {0, 1, 3}

ShortVecs == UNION {[1 .. n -> Coeffs] : n \in 0 .. MaxLen}

\* A vector of n nonzero coefficients, no two neighbours equal.
Ramp(n, a, b) == [i \in 1 .. n |-> ((a * i + b) % (MODULUS - 1)) + 1]

\* The workers: one cpu, a number of cpus that is no power of two, the most.
Workers == {1, 3, MaxCpus}

\* The vectors given to from_coeffs of a domain that is then operated on.
Inputs == {Ramp(n, 7, 2) : n \in {0, 1, 2, 3, 5, MaxRamp}}

\* The vectors given to from_coeffs alone: every length up to 2^S + 1.
CtorInputs == ShortVecs \cup {Ramp(n, 7, 2) : n \in 0 .. (TwoPow(S) + 1)}

\* The scalars given to distribute_powers.
Powers == {multiplicative_generator}

CpuEnv(c) ==
    [kern |-> "None", variant |-> "Scalar", cpus |-> c, outcome |-> "none", junk |-> <<>>]

\* The domain given to mul_assign and sub_assign as other: a domain of the
\* length of dom, in evaluation form.
Others == {fft(from_coeffs(Ramp(Len(dom.coeffs), 11, 5)).dom, CpuEnv(cpus)).dom}

Outcomes == IF kern = "Some" THEN KernelOutcomes ELSE {"none"}

Junk(len) ==
    IF kern = "Some" /\ variant = "Point"
    THEN {[i \in 1 .. len |-> x] : x \in {zero, one}}
    ELSE {<<>>}

Env(outcome, junk) ==
    [kern |-> kern, variant |-> variant, cpus |-> cpus,
     outcome |-> outcome, junk |-> junk]

Entry(op, call, outcome, arg) ==
    [op |-> op, before |-> dom.coeffs, call |-> call, outcome |-> outcome, arg |-> arg]

CanCall == result = "Ok" /\ ~panicked /\ Len(hist) < MaxOps

NoPar == [pc |-> "idle"]

NoTest == [pc |-> "idle"]

NoDist == [pc |-> "idle"]

InitWith(workers, kerns, variants) ==
    /\ cpus \in workers
    /\ kern \in kerns
    /\ variant \in variants
    /\ input = <<>>
    /\ result = "none"
    /\ dom = NoDomain
    /\ hist = <<>>
    /\ panicked = FALSE
    /\ par = NoPar
    /\ test = NoTest
    /\ dist = NoDist

Init == InitWith(Workers, {"None"}, {"Scalar"})

FromCoeffsOf(vectors) ==
    /\ result = "none"
    /\ \E v \in vectors :
          LET r == from_coeffs(v)
          IN  /\ input' = v
              /\ result' = IF r.ok THEN "Ok" ELSE r.err
              /\ dom' = r.dom
    /\ UNCHANGED <<cpus, kern, variant, hist, panicked, par, test, dist>>

FromCoeffs == FromCoeffsOf(Inputs)

\* What a call of the transform op that returned r leaves: the domain, and
\* the call at the end of hist.
Transformed(op, r, outcome) ==
    /\ dom' = r.dom
    /\ hist' = Append(hist, Entry(op, r.call, outcome, <<>>))
    /\ UNCHANGED <<cpus, kern, variant, input, result, panicked, par, test, dist>>

Fft ==
    /\ CanCall
    /\ \E outcome \in Outcomes, junk \in Junk(Len(dom.coeffs)) :
          Transformed("fft", fft(dom, Env(outcome, junk)), outcome)

Ifft ==
    /\ CanCall
    /\ \E outcome \in Outcomes, junk \in Junk(Len(dom.coeffs)) :
          Transformed("ifft", ifft(dom, Env(outcome, junk)), outcome)

CosetFft ==
    /\ CanCall
    /\ \E outcome \in Outcomes, junk \in Junk(Len(dom.coeffs)) :
          Transformed("coset_fft", coset_fft(dom, Env(outcome, junk)), outcome)

IcosetFft ==
    /\ CanCall
    /\ \E outcome \in Outcomes, junk \in Junk(Len(dom.coeffs)) :
          Transformed("icoset_fft", icoset_fft(dom, Env(outcome, junk)), outcome)

DistributePowers ==
    /\ CanCall
    /\ \E g \in Powers :
          /\ dom' = distribute_powers(dom, cpus, g)
          /\ hist' = Append(hist, Entry("distribute_powers", NoCall, "none", <<g>>))
    /\ UNCHANGED <<cpus, kern, variant, input, result, panicked, par, test, dist>>

DivideByZOnCoset ==
    /\ CanCall
    /\ LET r == divide_by_z_on_coset(dom, cpus)
       IN  /\ dom' = r.dom
           /\ panicked' = r.panic
    /\ hist' = Append(hist, Entry("divide_by_z_on_coset", NoCall, "none", <<>>))
    /\ UNCHANGED <<cpus, kern, variant, input, result, par, test, dist>>

MulAssign ==
    /\ CanCall
    /\ \E other \in Others :
          LET r == mul_assign(dom, cpus, other)
          IN  /\ dom' = r.dom
              /\ panicked' = r.panic
              /\ hist' = Append(hist, Entry("mul_assign", NoCall, "none", other.coeffs))
    /\ UNCHANGED <<cpus, kern, variant, input, result, par, test, dist>>

SubAssign ==
    /\ CanCall
    /\ \E other \in Others :
          LET r == sub_assign(dom, cpus, other)
          IN  /\ dom' = r.dom
              /\ panicked' = r.panic
              /\ hist' = Append(hist, Entry("sub_assign", NoCall, "none", other.coeffs))
    /\ UNCHANGED <<cpus, kern, variant, input, result, par, test, dist>>

Next ==
    \/ FromCoeffs
    \/ Fft
    \/ Ifft
    \/ CosetFft
    \/ IcosetFft
    \/ DistributePowers
    \/ DivideByZOnCoset
    \/ MulAssign
    \/ SubAssign

\* One domain and every call on it, on the CPU.
Spec == Init /\ [][Next]_vars

FromCoeffsAlone == FromCoeffsOf(CtorInputs)

NextCtor == FromCoeffsAlone

\* from_coeffs alone, on vectors of every length up to 2^S + 1.
SpecCtor == Init /\ [][NextCtor]_vars

\* The vectors given to from_coeffs of a domain that is transformed with an
\* accelerator handle.
AccelInputs == {Ramp(n, 7, 2) : n \in {1, 3}}

InitAccel == InitWith({1, MaxCpus}, {"None", "Some"}, {"Scalar", "Point"})

FromCoeffsAccel == FromCoeffsOf(AccelInputs)

NextAccel ==
    \/ FromCoeffsAccel
    \/ Fft
    \/ Ifft
    \/ CosetFft
    \/ IcosetFft

\* One domain of either variant and its transforms, with and without an
\* accelerator handle.
SpecAccel == InitAccel /\ [][NextAccel]_vars

\* The roots of unity of order exactly 2^log_n.
RootsOfOrder(log_n) ==
    {x \in Fr : /\ pow(x, TwoPow(log_n)) = one
                /\ log_n >= 1 => pow(x, TwoPow(log_n - 1)) = sub(zero, one)}

\* The buffers of length n given to parallel_fft: a ramp, and a vector with
\* zeros in it.
ParBuffers(n) == {Ramp(n, 7, 2), [i \in 1 .. n |-> IF i % 3 = 1 THEN i ELSE zero]}

InitPar ==
    /\ cpus = 1
    /\ kern = "None"
    /\ variant = "Scalar"
    /\ input = <<>>
    /\ result = "none"
    /\ dom = NoDomain
    /\ hist = <<>>
    /\ panicked = FALSE
    /\ test = NoTest
    /\ dist = NoDist
    /\ \E log_n \in 0 .. MaxLogN :
       \E log_cpus \in 0 .. Min(log_n, MaxLogCpus) :
       \E c \in 1 .. MaxCpus :
       \E omega \in RootsOfOrder(log_n) :
       \E v \in ParBuffers(TwoPow(log_n)) :
          par = [pc |-> "first scope", v |-> v, a |-> v, omega |-> omega,
                 log_n |-> log_n, log_cpus |-> log_cpus, cpus |-> c,
                 tmp |-> [j \in 1 .. TwoPow(log_cpus) |->
                             [i \in 1 .. TwoPow(log_n - log_cpus) |-> group_zero]],
                 pending |-> 0 .. (TwoPow(log_cpus) - 1)]

ParUnchanged ==
    UNCHANGED <<cpus, kern, variant, input, result, dom, hist, panicked, test, dist>>

\* The worker runs one of the tasks of the first scope.
ParSubFft ==
    /\ par.pc = "first scope"
    /\ \E j \in par.pending :
          par' = [par EXCEPT
                    !.tmp[j + 1] = SubFftTask(par.a, par.omega, par.log_n, par.log_cpus, j),
                    !.pending = par.pending \ {j}]
    /\ ParUnchanged

\* The first scope ends when its tasks have run; the second scope spawns one
\* task for each slice of a.chunks_mut(chunk).
ParSecondScope ==
    /\ par.pc = "first scope"
    /\ par.pending = {}
    /\ par' = [par EXCEPT
                 !.pc = "second scope",
                 !.pending = 0 .. (NumChunks(Len(par.a),
                                             ScopeChunk(par.cpus, Len(par.a))) - 1)]
    /\ ParUnchanged

\* The worker runs one of the tasks of the second scope.
ParCopy ==
    /\ par.pc = "second scope"
    /\ \E c \in par.pending :
          par' = [par EXCEPT
                    !.a = CopyTask(par.a, par.tmp, c,
                                   ScopeChunk(par.cpus, Len(par.a)), par.log_cpus),
                    !.pending = par.pending \ {c}]
    /\ ParUnchanged

\* The second scope ends when its tasks have run, and parallel_fft returns.
ParReturn ==
    /\ par.pc = "second scope"
    /\ par.pending = {}
    /\ par' = [par EXCEPT !.pc = "done"]
    /\ ParUnchanged

NextPar ==
    \/ ParSubFft
    \/ ParSecondScope
    \/ ParCopy
    \/ ParReturn

\* One call of parallel_fft, its tasks run in any order.
SpecPar == InitPar /\ [][NextPar]_vars

\* ------------------------------- distribute_powers, task by task

\* The vectors whose domains distribute_powers is run on task by task: the
\* domains of 1, 2, 4, 8 and 16 coefficients, with and without zero padding.
DistInputs == {Ramp(n, 7, 2) : n \in {1, 2, 4, 5, 8, MaxRamp}}

\* The scalars g that coset_fft and icoset_fft give to distribute_powers.
DistPowers(d) == {multiplicative_generator, d.geninv}

\* The chunks a worker may hand to the closure of scope(len, ..): its own, and
\* every chunk from one element up, those that do not divide len and those
\* longer than len among them.
DistChunks(c, len) ==
    {chunk \in (1 .. MaxChunk) \cup {ScopeChunk(c, len)} :
        NumChunks(len, chunk) <= MaxTasks}

InitDist ==
    /\ cpus \in Workers
    /\ kern = "None"
    /\ variant = "Scalar"
    /\ input \in DistInputs
    /\ result = "Ok"
    /\ dom = from_coeffs(input).dom
    /\ hist = <<>>
    /\ panicked = FALSE
    /\ par = NoPar
    /\ test = NoTest
    /\ dist = NoDist

DistUnchanged ==
    UNCHANGED <<cpus, kern, variant, input, result, hist, panicked, par, test>>

\* worker.scope(self.coeffs.len(), ..) calls the closure with a chunk, and the
\* closure spawns one task for each slice of coeffs.chunks_mut(chunk).
DistScope ==
    /\ dist.pc = "idle"
    /\ \E g \in DistPowers(dom), chunk \in DistChunks(cpus, Len(dom.coeffs)) :
          dist' = [pc |-> "scope", g |-> g, chunk |-> chunk, before |-> dom.coeffs,
                   pending |-> 0 .. (NumChunks(Len(dom.coeffs), chunk) - 1),
                   inorder |-> TRUE]
    /\ UNCHANGED dom
    /\ DistUnchanged

\* The worker runs one of the spawned tasks; inorder tells whether every task
\* so far ran before all tasks of later slices.
DistTask ==
    /\ dist.pc = "scope"
    /\ \E i \in dist.pending :
          /\ dom' = [dom EXCEPT !.coeffs = DistributeTask(dom.coeffs, i, dist.chunk, dist.g)]
          /\ dist' = [dist EXCEPT
                        !.pending = dist.pending \ {i},
                        !.inorder = dist.inorder /\ \A j \in dist.pending : i <= j]
    /\ DistUnchanged

\* The scope ends when its tasks have run, and distribute_powers returns.
DistReturn ==
    /\ dist.pc = "scope"
    /\ dist.pending = {}
    /\ dist' = [dist EXCEPT !.pc = "done"]
    /\ UNCHANGED dom
    /\ DistUnchanged

NextDist ==
    \/ DistScope
    \/ DistTask
    \/ DistReturn

\* One call of distribute_powers, its tasks run in any order.
SpecDist == InitDist /\ [][NextDist]_vars

RECURSIVE NaiveInner(_, _, _, _, _)
\* for (i2, b) in b.iter().enumerate(): naive[i1 + i2] += a[i1] * b[i2].
NaiveInner(naive, a, b, i1, i2) ==
    IF i2 >= Len(b) \/ ~Evaluated(naive) THEN naive
    ELSE LET prod == group_mul_assign(At(a, i1), At(b, i2))
         IN  NaiveInner(Put(naive, i1 + i2, group_add_assign(At(naive, i1 + i2), prod)),
                        a, b, i1, i2 + 1)

RECURSIVE NaiveOuter(_, _, _, _)
\* for (i1, a) in a.iter().enumerate(): the inner loop.
NaiveOuter(naive, a, b, i1) ==
    IF i1 >= Len(a) \/ ~Evaluated(naive) THEN naive
    ELSE NaiveOuter(NaiveInner(naive, a, b, i1, 0), a, b, i1 + 1)

\* The naive evaluation of the test: the schoolbook product of a and b, in a
\* vector of len zeros.
Naive(a, b, len) == NaiveOuter([i \in 1 .. len |-> group_zero], a, b, 0)

\* The lengths beyond coeffs_a + coeffs_b that a and b are resized to.
Extras == {0, 1}

\* The pairs of polynomials the test multiplies: every pair of short vectors,
\* one of six and five coefficients, and one too long for a domain.
TestPairs ==
    (ShortVecs \X ShortVecs)
        \cup {<<Ramp(6, 7, 2), Ramp(5, 11, 5)>>, <<Ramp(9, 7, 2), Ramp(8, 11, 5)>>}

InitTest ==
    /\ cpus \in Workers
    /\ kern = "None"
    /\ variant = "Scalar"
    /\ input = <<>>
    /\ result = "none"
    /\ dom = NoDomain
    /\ hist = <<>>
    /\ panicked = FALSE
    /\ par = NoPar
    /\ dist = NoDist
    /\ \E ab \in TestPairs, extra \in Extras :
          test = [pc |-> "start", a |-> ab[1], b |-> ab[2],
                  len |-> Len(ab[1]) + Len(ab[2]) + extra,
                  naive |-> <<>>, da |-> NoDomain, db |-> NoDomain]

TestUnchanged ==
    UNCHANGED <<cpus, kern, variant, input, result, dom, hist, panicked, par, dist>>

\* The naive evaluation, the resizes and the two from_coeffs(..).unwrap().
TestFromCoeffs ==
    /\ test.pc = "start"
    /\ LET ra == from_coeffs(resize(test.a, test.len, group_zero))
           rb == from_coeffs(resize(test.b, test.len, group_zero))
       IN  test' = [test EXCEPT
                      !.pc = IF ra.ok /\ rb.ok THEN "a.fft" ELSE "panicked",
                      !.naive = Naive(test.a, test.b, test.len),
                      !.da = ra.dom,
                      !.db = rb.dom]
    /\ TestUnchanged

TestFftA ==
    /\ test.pc = "a.fft"
    /\ test' = [test EXCEPT !.pc = "b.fft", !.da = fft(test.da, CpuEnv(cpus)).dom]
    /\ TestUnchanged

TestFftB ==
    /\ test.pc = "b.fft"
    /\ test' = [test EXCEPT !.pc = "a.mul_assign", !.db = fft(test.db, CpuEnv(cpus)).dom]
    /\ TestUnchanged

TestMulAssign ==
    /\ test.pc = "a.mul_assign"
    /\ LET r == mul_assign(test.da, cpus, test.db)
       IN  test' = [test EXCEPT
                      !.pc = IF r.panic THEN "panicked" ELSE "a.ifft",
                      !.da = r.dom]
    /\ TestUnchanged

TestIfft ==
    /\ test.pc = "a.ifft"
    /\ test' = [test EXCEPT !.pc = "done", !.da = ifft(test.da, CpuEnv(cpus)).dom]
    /\ TestUnchanged

NextTest ==
    \/ TestFromCoeffs
    \/ TestFftA
    \/ TestFftB
    \/ TestMulAssign
    \/ TestIfft

\* One iteration of the loop of the test polynomial_arith.
SpecTest == InitTest /\ [][NextTest]_vars

\* -------------------------------------------------------------- claims

\* The smallest exp with 2^exp >= n.
CeilLog2(n) ==
    CHOOSE e \in 0 .. (S + 2) :
        TwoPow(e) >= n /\ \A f \in 0 .. (e - 1) : TwoPow(f) < n

\* The coefficients the i-th call of hist left.
After(i) == IF i = Len(hist) THEN dom.coeffs ELSE hist[i + 1].before

\* Call i of hist is op1 and call i + 1 is op2.
Pair(i, op1, op2) == hist[i].op = op1 /\ hist[i + 1].op = op2

Pairs == 1 .. (Len(hist) - 1)

\* C1: from_coeffs fails with PolynomialDegreeTooLarge exactly when the
\* smallest exp with 2^exp >= len is greater than S; a vector of length 2^S is
\* accepted and gives a domain with exp = S.
C1_ErrorExactlyAboveS ==
    result # "none" =>
        /\ (result = "PolynomialDegreeTooLarge") <=> (CeilLog2(Len(input)) > S)
        /\ Len(input) = TwoPow(S) => (result = "Ok" /\ dom.exp = S)

\* C2: a domain from_coeffs returns for a vector of length n has
\* coeffs.len() = 2^exp for the smallest exp with 2^exp >= n, holds the vector
\* in its first n entries and the group zero in every entry after them.
C2_PaddedToPowerOfTwo ==
    (result = "Ok" /\ hist = <<>>) =>
        LET n == Len(input)
        IN  /\ dom.exp = CeilLog2(n)
            /\ Len(dom.coeffs) = TwoPow(dom.exp)
            /\ \A i \in 1 .. n : dom.coeffs[i] = input[i]
            /\ \A i \in (n + 1) .. Len(dom.coeffs) : dom.coeffs[i] = group_zero

\* A vector of five coefficients was padded to eight.
C2_Witness ==
    /\ result = "Ok"
    /\ Len(input) = 5
    /\ Len(dom.coeffs) = 8
    /\ dom.coeffs[5] # group_zero
    /\ dom.coeffs[6] = group_zero

\* C3: with no accelerator, fft followed by ifft leaves coeffs as they were
\* before the two calls, and so does ifft followed by fft, for every worker.
C3_FftIfftRoundTrip ==
    kern = "None" =>
        \A i \in Pairs :
            (Pair(i, "fft", "ifft") \/ Pair(i, "ifft", "fft")) =>
                After(i + 1) = hist[i].before

\* A domain of 16 coefficients went through the parallel fft and then ifft,
\* and the fft changed it.
C3_Witness ==
    /\ Len(hist) = 2
    /\ Pair(1, "fft", "ifft")
    /\ dom.exp = 4
    /\ hist[1].call.cpu = "parallel"
    /\ hist[2].before # hist[1].before

\* C8: with no accelerator, coset_fft followed by icoset_fft leaves coeffs as
\* they were before the two calls, and so does icoset_fft followed by
\* coset_fft, for every worker.
C8_CosetRoundTrip ==
    kern = "None" =>
        \A i \in Pairs :
            (Pair(i, "coset_fft", "icoset_fft") \/ Pair(i, "icoset_fft", "coset_fft")) =>
                After(i + 1) = hist[i].before

\* A domain of 16 coefficients went through icoset_fft and then coset_fft on a
\* worker whose chunks do not divide the length, and icoset_fft changed it.
C8_Witness ==
    /\ Len(hist) = 2
    /\ Pair(1, "icoset_fft", "coset_fft")
    /\ dom.exp = 4
    /\ cpus = 3
    /\ hist[2].before # hist[1].before

\* C9: z vanishes on every power of omega and not on the multiplicative
\* generator, and divide_by_z_on_coset never panics.
C9_VanishingOnDomainOnly ==
    result = "Ok" =>
        /\ \A k \in 0 .. MaxK : z(dom, pow(dom.omega, k)) = zero
        /\ z(dom, multiplicative_generator) # zero
        /\ (hist # <<>> /\ hist[Len(hist)].op = "divide_by_z_on_coset") => ~panicked

\* divide_by_z_on_coset ran on the largest domain and scaled its coefficients.
C9_Witness ==
    /\ hist # <<>>
    /\ hist[Len(hist)].op = "divide_by_z_on_coset"
    /\ dom.exp = S - 1
    /\ dom.coeffs # hist[Len(hist)].before
    /\ ~panicked

\* C10: in every domain, after every sequence of calls, omega is a primitive
\* 2^exp-th root of unity and coeffs.len() = 2^exp.
C10_OmegaPrimitive ==
    result = "Ok" =>
        /\ pow(dom.omega, TwoPow(dom.exp)) = one
        /\ dom.exp >= 1 => pow(dom.omega, TwoPow(dom.exp - 1)) = sub(zero, one)
        /\ Len(dom.coeffs) = TwoPow(dom.exp)

\* A domain of eight coefficients after coset_fft and mul_assign.
C10_Witness ==
    /\ Len(hist) = 2
    /\ Pair(1, "coset_fft", "mul_assign")
    /\ dom.exp = 3

Transforms == {"fft", "ifft", "coset_fft", "icoset_fft"}

\* What the transform op leaves of coefficients a of dom when run on the CPU.
OnCpu(op, a) ==
    LET d == [dom EXCEPT !.coeffs = a]
        env == CpuEnv(cpus)
    IN  CASE op = "fft" -> fft(d, env).dom.coeffs
          [] op = "ifft" -> ifft(d, env).dom.coeffs
          [] op = "coset_fft" -> coset_fft(d, env).dom.coeffs
          [] op = "icoset_fft" -> icoset_fft(d, env).dom.coeffs

\* C6: a transform returns Ok whatever the accelerator does; it calls
\* radix_fft at most once; with no handle, no usable kernel or an Err from
\* radix_fft the CPU transform runs and leaves its result; with an Ok from
\* radix_fft the CPU transform does not run.
C6_FallbackNeverFails ==
    \A i \in 1 .. Len(hist) :
        hist[i].op \in Transforms =>
            /\ hist[i].call.ret = "Ok"
            /\ hist[i].call.radix_calls <= 1
            /\ hist[i].outcome \in {"none", "NoKernel"} => hist[i].call.radix_calls = 0
            /\ hist[i].outcome \in {"none", "NoKernel", "Err"} =>
                  /\ hist[i].call.cpu # "none"
                  /\ After(i) = OnCpu(hist[i].op, hist[i].before)
            /\ hist[i].outcome = "Ok" =>
                  /\ hist[i].call.cpu = "none"
                  /\ hist[i].call.radix_calls = 1

\* radix_fft returned Err on a domain of four scalars, the parallel transform
\* ran in its place, and the next transform ran on the accelerator.
C6_Witness ==
    /\ Len(hist) = 2
    /\ variant = "Scalar"
    /\ dom.exp = 2
    /\ hist[1].outcome = "Err"
    /\ hist[1].call.cpu = "parallel"
    /\ hist[1].call.radix_calls = 1
    /\ hist[2].outcome = "Ok"
    /\ hist[2].call.cpu = "none"

\* C7: a transform of a domain of Points never passes the buffer to the
\* accelerator's radix_fft.
C7_PointNeverOnAccelerator ==
    \A i \in 1 .. Len(hist) :
        variant = "Point" => hist[i].call.passed # "Point"

\* C4: parallel_fft leaves the buffer that serial_fft leaves on the same
\* input, for every root omega of order 2^log_n, every log_cpus <= log_n and
\* every order in which the worker runs the tasks of the two scopes; run with
\* the tasks in index order it does so for every log_cpus up to log_n.
C4_ParallelEqualsSerial ==
    /\ par.pc = "done" => par.a = serial_fft(par.v, par.omega, par.log_n)
    /\ par.pc = "first scope" /\ par.pending = 0 .. (TwoPow(par.log_cpus) - 1) =>
          \A log_cpus \in 0 .. par.log_n :
              parallel_fft(par.v, par.omega, par.log_n, log_cpus,
                           ScopeChunk(par.cpus, Len(par.v)))
                  = serial_fft(par.v, par.omega, par.log_n)

\* parallel_fft returned on a buffer of eight elements split into four
\* sub-FFTs, copied back in four slices, and the transform changed the buffer.
C4_Witness ==
    /\ par.pc = "done"
    /\ par.log_n = 3
    /\ par.log_cpus = 2
    /\ par.cpus = 3
    /\ par.a # par.v

\* C5: for a and b zero-padded to a common length of at least
\* len(a) + len(b), from_coeffs of each, fft of both, a.mul_assign(b) and
\* a.ifft leave the schoolbook convolution of a and b in the first entries of
\* a.coeffs, one for every entry of the padded length.
C5_ProductIsConvolution ==
    test.pc = "done" =>
        \A i \in 1 .. test.len : test.da.coeffs[i] = test.naive[i]

\* The product of a polynomial of six coefficients and one of five was
\* computed in a domain of 16, and its last coefficient is not zero.
C5_Witness ==
    /\ test.pc = "done"
    /\ Len(test.a) = 6
    /\ Len(test.b) = 5
    /\ Len(test.da.coeffs) = 16
    /\ test.naive[10] # group_zero
    /\ test.da.coeffs[10] = test.naive[10]

\* What distribute_powers(g) is to leave at index idx of a buffer that held
\* before: before[idx] * g^idx.
Distributed(before, idx, g) == group_mul_assign(At(before, idx), pow(g, idx))

\* C11: distribute_powers(g) sets coeffs[i] to old coeffs[i] * g^i for every
\* index i in 0..m, for every chunk size >= 1 the worker chooses, those that
\* do not divide m among them, and every order in which the tasks run: while
\* tasks are pending, the indices of the slices whose task has run hold
\* coeffs[i] * g^i and all other indices hold the old coeffs[i], so the task
\* of the slice starting at i0 seeds with g^i0 and writes its own slice only;
\* the tasks run in index order, as one call, leave the same buffer.
C11_DistributePowersAnyChunk ==
    dist.pc # "idle" =>
        /\ Len(dom.coeffs) = Len(dist.before)
        /\ \A idx \in 0 .. (Len(dist.before) - 1) :
              At(dom.coeffs, idx) =
                  IF (idx \div dist.chunk) \in dist.pending
                  THEN At(dist.before, idx)
                  ELSE Distributed(dist.before, idx, dist.g)
        /\ dist.pc = "done" =>
              DistributeChunks(dist.before, 0, dist.chunk, dist.g) = dom.coeffs

\* distribute_powers returned on a domain of eight coefficients cut into
\* slices of three, three and two, none of them zero, the tasks having run out
\* of index order, and the last coefficient changed.
C11_Witness ==
    /\ dist.pc = "done"
    /\ Len(input) = 8
    /\ Len(dom.coeffs) = 8
    /\ dist.chunk = 3
    /\ ~dist.inorder
    /\ At(dom.coeffs, 7) # At(dist.before, 7)
    /\ At(dom.coeffs, 7) = Distributed(dist.before, 7, dist.g)

====
